---------------------------- MODULE Spec2Model ----------------------------
(***************************************************************************)
(* BSM_sim: the DCF valuation engine (backend/models/DCF.py), the option   *)
(* pricing engine (backend/models/black_scholes.py) and the                *)
(* financial-parameter resolver (backend/utils/DataProcessor.py).          *)
(*                                                                         *)
(* Numbers are exact rationals <<n, d>> with d > 0 in lowest terms; the    *)
(* value sets below are chosen so that Python's float arithmetic on them   *)
(* raises exactly where the rational arithmetic divides by zero.           *)
(***************************************************************************)
EXTENDS Integers, Sequences, FiniteSets, TLC

VARIABLES
    dcf,             \* DiscountedCashFlowModel: the eight instance fields
    dcfCall,         \* the last method called on it, with its arguments
    dcfRet,          \* what that call returned or raised
    bsm,             \* BlackScholesModel: the five instance fields
    bsmCall,         \* the last method called on it, with its arguments
    bsmRet,          \* what that call returned
    provider,        \* what the remote provider holds for the ticker asked,
                     \* and how many times it has been asked
    yahoo_processor, \* DCFDataManager.yahoo_processor
    disk,            \* the files there are: path -> the file as stored
    mgrCall,         \* the DCFDataManager call in progress, with its arguments
    mgrRet           \* what that call returned or raised

vars == <<dcf, dcfCall, dcfRet, bsm, bsmCall, bsmRet,
          provider, yahoo_processor, disk, mgrCall, mgrRet>>
dcfVars == <<dcf, dcfCall, dcfRet>>
bsmVars == <<bsm, bsmCall, bsmRet>>
mgrVars == <<provider, yahoo_processor, disk, mgrCall, mgrRet>>

(***************************************************************************)
(* Bounds of the model.                                                    *)
(***************************************************************************)
MaxYears == 3
MaxFlows == 2
MaxCols == 2
MaxRequests == 2
MaxSimulations == 2

(***************************************************************************)
(* Rational arithmetic.                                                    *)
(***************************************************************************)
Abs(n) == IF n < 0 THEN -n ELSE n

RECURSIVE GCD(_, _)
GCD(a, b) == IF b = 0 THEN a ELSE GCD(b, a % b)

Rat(n, d) ==
    LET g == GCD(Abs(n), Abs(d))
        s == IF d < 0 THEN -1 ELSE 1
    IN  <<(s * n) \div g, (s * d) \div g>>

Num(n) == <<n, 1>>
Zero == Num(0)
One == Num(1)
IsZero(x) == x[1] = 0

RAdd(x, y) == Rat(x[1] * y[2] + y[1] * x[2], x[2] * y[2])
RSub(x, y) == Rat(x[1] * y[2] - y[1] * x[2], x[2] * y[2])
RMul(x, y) == Rat(x[1] * y[1], x[2] * y[2])
\* the quotient of x by a non-zero y
RQuot(x, y) == Rat(x[1] * y[2], x[2] * y[1])

RECURSIVE RPow(_, _)
RPow(x, n) == IF n = 0 THEN One ELSE RMul(x, RPow(x, n - 1))

(***************************************************************************)
(* Python evaluation: a call returns a value or raises an exception.       *)
(***************************************************************************)
NoValue == <<>>
Return(v) == [exc |-> "None", val |-> v]
Raise(e) == [exc |-> e, val |-> NoValue]
Raised(r) == r.exc # "None"

\* x / y on Python floats
Div(x, y) == IF IsZero(y) THEN Raise("ZeroDivisionError") ELSE Return(RQuot(x, y))

(***************************************************************************)
(* DiscountedCashFlowModel                                                 *)
(***************************************************************************)
DCFFields ==
    {"enterprise_value", "debt", "cash", "shares_outstanding",
     "last_fcf", "growth_rate", "wacc", "terminal_growth_rate"}

\* calculate_equity_value on the first projected cash flow in place of the
\* enterprise value given
calculate_equity_value_FromProjection(m) ==
    RAdd(RSub(RMul(m.last_fcf, RAdd(One, m.growth_rate)), m.debt), m.cash)

calculate_equity_value(m) == RAdd(RSub(m.enterprise_value, m.debt), m.cash)

calculate_implied_share_price(m) ==
    Div(calculate_equity_value(m), m.shares_outstanding)

\* project_free_cash_flows over range(0, years)
project_free_cash_flows_FromYearZero(m, years) ==
    [year \in 1..years |->
        RMul(m.last_fcf, RPow(RAdd(One, m.growth_rate), year - 1))]

project_free_cash_flows(m, years) ==
    [year \in 1..years |-> RMul(m.last_fcf, RPow(RAdd(One, m.growth_rate), year))]

calculate_terminal_value(m, final_fcf) ==
    Div(RMul(final_fcf, RAdd(One, m.terminal_growth_rate)),
        RSub(m.wacc, m.terminal_growth_rate))

\* the loop of calculate_present_value over cash_flows[1..i], pv_fcf so far
RECURSIVE DiscountFlows(_, _, _)
DiscountFlows(m, cash_flows, i) ==
    IF i = 0 THEN Return(Zero)
    ELSE LET before == DiscountFlows(m, cash_flows, i - 1)
             term == Div(cash_flows[i], RPow(RAdd(One, m.wacc), i))
         IN  IF Raised(before) THEN before
             ELSE IF Raised(term) THEN term
             ELSE Return(RAdd(before.val, term.val))

\* calculate_present_value discounting the terminal value one period more
calculate_present_value_TerminalOneMore(m, cash_flows, terminal_value) ==
    LET pv_fcf == DiscountFlows(m, cash_flows, Len(cash_flows))
        pv_terminal_value ==
            Div(terminal_value, RPow(RAdd(One, m.wacc), Len(cash_flows) + 1))
    IN  IF Raised(pv_fcf) THEN pv_fcf
        ELSE IF Raised(pv_terminal_value) THEN pv_terminal_value
        ELSE Return(RAdd(pv_fcf.val, pv_terminal_value.val))

calculate_present_value(m, cash_flows, terminal_value) ==
    LET pv_fcf == DiscountFlows(m, cash_flows, Len(cash_flows))
        pv_terminal_value ==
            Div(terminal_value, RPow(RAdd(One, m.wacc), Len(cash_flows)))
    IN  IF Raised(pv_fcf) THEN pv_fcf
        ELSE IF Raised(pv_terminal_value) THEN pv_terminal_value
        ELSE Return(RAdd(pv_fcf.val, pv_terminal_value.val))

\* calculate_intrinsic_value on the enterprise value given in place of the
\* present value of the projection
calculate_intrinsic_value_FromInput(m, years) ==
    Div(RAdd(RSub(m.enterprise_value, m.debt), m.cash), m.shares_outstanding)

calculate_intrinsic_value(m, years) ==
    LET projected_fcf == project_free_cash_flows(m, years)
    IN  IF years = 0 THEN Raise("IndexError")
        ELSE
        LET final_fcf == projected_fcf[years]
            terminal_value == calculate_terminal_value(m, final_fcf)
        IN  IF Raised(terminal_value) THEN terminal_value
            ELSE
            LET intrinsic_enterprise_value ==
                    calculate_present_value(m, projected_fcf, terminal_value.val)
            IN  IF Raised(intrinsic_enterprise_value) THEN intrinsic_enterprise_value
                ELSE
                LET intrinsic_equity_value ==
                        RAdd(RSub(intrinsic_enterprise_value.val, m.debt), m.cash)
                IN  Div(intrinsic_equity_value, m.shares_outstanding)

(***************************************************************************)
(* The values the engine is driven with.                                   *)
(***************************************************************************)
Money == {Zero, Num(60)}
FlowLists == UNION {[1..n -> Money] : n \in 0..MaxFlows}

DCFModels ==
    [enterprise_value : {Zero, Num(1000)},
     debt : {Num(200)},
     cash : {Zero, Num(50)},
     shares_outstanding : {Zero, Num(100)},
     last_fcf : Money,
     growth_rate : {Rat(-1, 2), Zero, One},
     wacc : {Num(-1), Zero, One},
     terminal_growth_rate : {Zero, One}]

NoCall == [op |-> "none"]

DCFIdle ==
    /\ dcfCall = NoCall
    /\ dcfRet = Return(NoValue)

ImpliedSharePrice ==
    /\ dcfCall' = [op |-> "calculate_implied_share_price"]
    /\ dcfRet' = calculate_implied_share_price(dcf)
    /\ UNCHANGED <<dcf, bsmVars, mgrVars>>

ProjectFreeCashFlows ==
    \E years \in 1..MaxYears :
        /\ dcfCall' = [op |-> "project_free_cash_flows", years |-> years]
        /\ dcfRet' = Return(project_free_cash_flows(dcf, years))
        /\ UNCHANGED <<dcf, bsmVars, mgrVars>>

TerminalValue ==
    \E final_fcf \in Money :
        /\ dcfCall' = [op |-> "calculate_terminal_value", final_fcf |-> final_fcf]
        /\ dcfRet' = calculate_terminal_value(dcf, final_fcf)
        /\ UNCHANGED <<dcf, bsmVars, mgrVars>>

PresentValue ==
    \E cash_flows \in FlowLists, terminal_value \in Money :
        /\ dcfCall' = [op |-> "calculate_present_value",
                       cash_flows |-> cash_flows, terminal_value |-> terminal_value]
        /\ dcfRet' = calculate_present_value(dcf, cash_flows, terminal_value)
        /\ UNCHANGED <<dcf, bsmVars, mgrVars>>

IntrinsicValue ==
    \E years \in 1..MaxYears :
        /\ dcfCall' = [op |-> "calculate_intrinsic_value", years |-> years]
        /\ dcfRet' = calculate_intrinsic_value(dcf, years)
        /\ UNCHANGED <<dcf, bsmVars, mgrVars>>

DCFNext ==
    \/ ImpliedSharePrice
    \/ ProjectFreeCashFlows
    \/ TerminalValue
    \/ PresentValue
    \/ IntrinsicValue

(***************************************************************************)
(* BlackScholesModel (backend/models/black_scholes.py)                     *)
(*                                                                         *)
(* S0 / K is a power of two in every model below, so np.log returns a      *)
(* whole multiple of ln(2), and a value of the engine is a + b * ln(2)     *)
(* with a and b rational, written <<a, b>>. T is the square of a rational. *)
(* norm.cdf, np.exp, np.maximum and np.mean are not evaluated: a result    *)
(* that goes through them is the expression over their exact arguments.    *)
(***************************************************************************)
LNum(a, b) == <<a, b>>
LAdd(x, y) == <<RAdd(x[1], y[1]), RAdd(x[2], y[2])>>
LSub(x, y) == <<RSub(x[1], y[1]), RSub(x[2], y[2])>>
LOver(x, q) == <<RQuot(x[1], q), RQuot(x[2], q)>>

\* the sign of a + b * ln(2), from 0.693 < ln(2) < 0.694
Sign(x) ==
    LET below == RAdd(x[1], RMul(x[2], Rat(693, 1000)))
        above == RAdd(x[1], RMul(x[2], Rat(694, 1000)))
    IN  CASE below[1] > 0 /\ above[1] > 0 -> 1
          [] below[1] < 0 /\ above[1] < 0 -> -1
          [] OTHER -> 0

\* np.float64 values: finite ones, and those a division by 0.0 gives
Finite(x) == [t |-> "finite", v |-> x]
Inf == [t |-> "inf", v |-> <<>>]
NegInf == [t |-> "-inf", v |-> <<>>]
NaN == [t |-> "nan", v |-> <<>>]

\* np.log of a power of two
Log(x) ==
    CASE x = Rat(1, 4) -> LNum(Zero, Num(-2))
      [] x = Rat(1, 2) -> LNum(Zero, Num(-1))
      [] x = One -> LNum(Zero, Zero)
      [] x = Num(2) -> LNum(Zero, One)
      [] x = Num(4) -> LNum(Zero, Num(2))

\* np.sqrt of the square of a rational
Sqrt(x) ==
    CASE x = Zero -> Zero
      [] x = Rat(1, 4) -> Rat(1, 2)
      [] x = One -> One
      [] x = Num(4) -> Num(2)

\* x / y on np.float64, y >= 0: no exception, a warning and inf or nan at 0.0
TrueDivide(x, y) ==
    IF ~IsZero(y) THEN Finite(LOver(x, y))
    ELSE CASE Sign(x) = 1 -> Inf
           [] Sign(x) = -1 -> NegInf
           [] OTHER -> NaN

\* x - y on np.float64, y finite
Subtract(x, y) ==
    IF x.t = "finite" THEN Finite(LSub(x.v, LNum(y, Zero))) ELSE x

BSMFields == {"S0", "K", "T", "r", "sigma"}

\* (r + sign * 0.5 * sigma**2) * T
Drift(m, sign) ==
    RMul(RAdd(m.r, RMul(Num(sign), RMul(Rat(1, 2), RPow(m.sigma, 2)))), m.T)

_calculate_d1(m) ==
    TrueDivide(LAdd(Log(RQuot(m.S0, m.K)), LNum(Drift(m, 1), Zero)),
               RMul(m.sigma, Sqrt(m.T)))

norm_cdf(x) == [fn |-> "norm.cdf", x |-> x]

\* calculate_probability on the d1 of _calculate_d1
calculate_probability_OfD1(m) == norm_cdf(_calculate_d1(m))

calculate_probability(m) ==
    LET d1 == TrueDivide(LAdd(Log(RQuot(m.S0, m.K)), LNum(Drift(m, -1), Zero)),
                         RMul(m.sigma, Sqrt(m.T)))
    IN  norm_cdf(d1)

\* S0 * norm.cdf(d1) - K * np.exp(-r * T) * norm.cdf(d2)
CallPrice(S0, cdf_d1, K, exponent, cdf_d2) ==
    [fn |-> "call_price", S0 |-> S0, cdf_d1 |-> cdf_d1,
     K |-> K, exp |-> exponent, cdf_d2 |-> cdf_d2]

calculate_call_price(m) ==
    LET d1 == _calculate_d1(m)
        d2 == Subtract(d1, RMul(m.sigma, Sqrt(m.T)))
    IN  CallPrice(m.S0, norm_cdf(d1), m.K, RSub(Zero, RMul(m.r, m.T)), norm_cdf(d2))

\* np.mean(np.maximum(S0 * np.exp(x) - K, 0)) * np.exp(-r * T), x the
\* exponent of each path
McPrice(S0, exponents, K, exponent) ==
    [fn |-> "mc_price", S0 |-> S0, paths |-> exponents, K |-> K, exp |-> exponent]

\* Y: the draws of np.random.standard_normal; elapsed: end_time - start_time
run_mc_simulation(m, n_simulations, Y, elapsed) ==
    LET ST == [i \in 1..n_simulations |->
                RAdd(Drift(m, -1), RMul(RMul(m.sigma, Sqrt(m.T)), Y[i]))]
        price == McPrice(m.S0, ST, m.K, RSub(Zero, RMul(m.r, m.T)))
    IN  <<price, elapsed>>

(***************************************************************************)
(* The values the option engine is driven with.                            *)
(***************************************************************************)
BSMValues ==
    [S0 |-> {Num(50), Num(100)},
     K |-> {Num(50), Num(100)},
     T |-> {Zero, One, Num(4)},
     r |-> {Zero, Rat(1, 2)},
     sigma |-> {Zero, Rat(1, 2), One}]

BSModels == {m \in [BSMFields -> UNION {BSMValues[f] : f \in BSMFields}] :
                \A f \in BSMFields : m[f] \in BSMValues[f]}

Draws == {Num(-1), One}
Samples(n) == [1..n -> Draws]
Elapsed == {Zero, One}

BSMIdle ==
    /\ bsmCall = NoCall
    /\ bsmRet = NoValue

BSMParked == bsm = <<>> /\ BSMIdle

CalculateD1 ==
    /\ bsmCall' = [op |-> "_calculate_d1"]
    /\ bsmRet' = _calculate_d1(bsm)
    /\ UNCHANGED <<bsm, dcfVars, mgrVars>>

CalculateProbability ==
    /\ bsmCall' = [op |-> "calculate_probability"]
    /\ bsmRet' = calculate_probability(bsm)
    /\ UNCHANGED <<bsm, dcfVars, mgrVars>>

CalculateCallPrice ==
    /\ bsmCall' = [op |-> "calculate_call_price"]
    /\ bsmRet' = calculate_call_price(bsm)
    /\ UNCHANGED <<bsm, dcfVars, mgrVars>>

RunMcSimulation ==
    \E n_simulations \in 1..MaxSimulations :
        \E Y \in Samples(n_simulations), elapsed \in Elapsed :
            /\ bsmCall' = [op |-> "run_mc_simulation", n_simulations |-> n_simulations]
            /\ bsmRet' = run_mc_simulation(bsm, n_simulations, Y, elapsed)
            /\ UNCHANGED <<bsm, dcfVars, mgrVars>>

BSMNext ==
    \/ CalculateD1
    \/ CalculateProbability
    \/ CalculateCallPrice
    \/ RunMcSimulation

(***************************************************************************)
(* Python values held in the resolver's dictionaries and tables.           *)
(***************************************************************************)
PyFloat(x) == [t |-> "float", v |-> x]
PyInt(x) == [t |-> "int", v |-> x]
PyStr(s) == [t |-> "str", v |-> <<s>>]
PyNone == [t |-> "NoneType", v |-> <<>>]

IsNone(x) == x.t = "NoneType"
IsNumeric(x) == x.t = "float"

\* bool(x)
Truthy(x) ==
    CASE x.t = "NoneType" -> FALSE
      [] x.t \in {"float", "int"} -> ~IsZero(x.v)
      [] OTHER -> x.v # <<"">>

\* float(s) of a string: the number it spells, ValueError if it spells none
ParseFloat(s) ==
    CASE s = "12.5" -> Return(PyFloat(Rat(25, 2)))
      [] s = "200" -> Return(PyFloat(Num(200)))
      [] s = "1000.0" -> Return(PyFloat(Num(1000)))
      [] s = "200.0" -> Return(PyFloat(Num(200)))
      [] s = "201.0" -> Return(PyFloat(Num(201)))
      [] s = "202.0" -> Return(PyFloat(Num(202)))
      [] s = "203.0" -> Return(PyFloat(Num(203)))
      [] s = "50.0" -> Return(PyFloat(Num(50)))
      [] s = "100.0" -> Return(PyFloat(Num(100)))
      [] s = "60.0" -> Return(PyFloat(Num(60)))
      [] s = "0.05" -> Return(PyFloat(Rat(1, 20)))
      [] s = "0.08" -> Return(PyFloat(Rat(2, 25)))
      [] s = "0.02" -> Return(PyFloat(Rat(1, 50)))
      [] OTHER -> Raise("ValueError")

\* repr(x) of a float, on the floats that are written to files
Repr(x) ==
    CASE x = Num(1000) -> "1000.0"
      [] x = Num(200) -> "200.0"
      [] x = Num(201) -> "201.0"
      [] x = Num(202) -> "202.0"
      [] x = Num(203) -> "203.0"
      [] x = Num(50) -> "50.0"
      [] x = Num(100) -> "100.0"
      [] x = Num(60) -> "60.0"
      [] x = Rat(1, 20) -> "0.05"
      [] x = Rat(2, 25) -> "0.08"
      [] x = Rat(1, 50) -> "0.02"
      [] x = Rat(25, 2) -> "12.5"
      [] OTHER -> "nan"

\* float(x)
ToFloat(x) ==
    CASE x.t = "float" -> Return(x)
      [] x.t = "int" -> Return(PyFloat(x.v))
      [] x.t = "NoneType" -> Raise("TypeError")
      [] OTHER -> ParseFloat(x.v[1])

\* d.get(key, default)
Get(d, key, default) == IF key \in DOMAIN d THEN d[key] ELSE default

Million == 1000000

\* x / 1e6
PerMillion(x) ==
    IF x.t = "float" THEN Return(PyFloat(RQuot(x.v, Num(Million))))
    ELSE Raise("TypeError")

\* a call that raised or returned, with the text of the error raised
MReturn(v) == [exc |-> "None", val |-> v, msg |-> <<>>]
MRaise(e, msg) == [exc |-> e, val |-> NoValue, msg |-> msg]

(***************************************************************************)
(* YahooFinanceDataProcessor                                               *)
(***************************************************************************)
Upper(ticker) ==
    CASE ticker = "aapl" -> "AAPL"
      [] ticker = "Msft" -> "MSFT"
      [] OTHER -> ticker

\* YahooFinanceDataProcessor(ticker)
YahooFinanceDataProcessor(ticker) == [ticker |-> Upper(ticker)]

_get_alternative_keys(key) ==
    CASE key = "Total Debt" ->
            <<"Total Debt", "Long Term Debt", "Total Liabilities Net Minority Interest">>
      [] key = "Cash And Cash Equivalents" ->
            <<"Cash", "Cash And Cash Equivalents", "Cash and Short Term Investments">>
      [] key = "Free Cash Flow" ->
            <<"Free Cash Flow", "Operating Cash Flow">>
      [] key = "Total Revenue" ->
            <<"Total Revenue", "Revenue", "Net Sales">>
      [] OTHER -> <<key>>

\* the first position from i on whose key is in the index of df, 0 if none
RECURSIVE FirstInIndex(_, _, _)
FirstInIndex(df, keys, i) ==
    IF i > Len(keys) THEN 0
    ELSE IF keys[i] \in DOMAIN df THEN i
    ELSE FirstInIndex(df, keys, i + 1)

\* LatestKey without the exact match of line 41: list order alone decides
LatestKey_ListOrderOnly(df, key) ==
    LET alternatives == _get_alternative_keys(key)
        i == FirstInIndex(df, alternatives, 1)
    IN  IF i = 0 THEN <<>> ELSE <<alternatives[i]>>

\* the cell the lookup settles on: <<key>>, or <<>> when no key is in the index
LatestKey(df, key) ==
    IF key \in DOMAIN df THEN <<key>>
    ELSE LET alternatives == _get_alternative_keys(key)
             i == FirstInIndex(df, alternatives, 1)
         IN  IF i = 0 THEN <<>> ELSE <<alternatives[i]>>

_get_latest_value(df, key) ==
    LET hit == LatestKey(df, key)
    IN  IF hit = <<>> THEN Return(PyFloat(Zero))
        ELSE LET r == ToFloat(df[hit[1]])
             IN  IF r.exc \in {"IndexError", "KeyError", "TypeError"}
                 THEN Return(PyFloat(Zero))
                 ELSE r

\* _get_latest_value(df, key) / 1e6
LatestPerMillion(df, key) ==
    LET r == _get_latest_value(df, key)
    IN  IF Raised(r) THEN r ELSE PerMillion(r.val)

\* the first of the calls that raised, or <<>>
RECURSIVE FirstRaised(_, _)
FirstRaised(rs, i) ==
    IF i > Len(rs) THEN <<>>
    ELSE IF Raised(rs[i]) THEN <<rs[i].exc>>
    ELSE FirstRaised(rs, i + 1)

\* Synthesise with the signs of debt and cash exchanged
Synthesise_SignsSwapped(data) ==
    IF IsZero(data.enterprise_value.v) /\ data.market_cap.v[1] > 0
    THEN [data EXCEPT !.enterprise_value =
            PyFloat(RAdd(RSub(data.market_cap.v, data.debt.v), data.cash.v))]
    ELSE data

\* Synthesise writing the synthesised value over market_cap as well
Synthesise_MarketCapOverwritten(data) ==
    IF IsZero(data.enterprise_value.v) /\ data.market_cap.v[1] > 0
    THEN LET value == PyFloat(RSub(RAdd(data.market_cap.v, data.debt.v), data.cash.v))
         IN  [data EXCEPT !.enterprise_value = value, !.market_cap = value]
    ELSE data

\* lines 31-32: the enterprise value synthesised from the market capitalisation
Synthesise(data) ==
    IF IsZero(data.enterprise_value.v) /\ data.market_cap.v[1] > 0
    THEN [data EXCEPT !.enterprise_value =
            PyFloat(RSub(RAdd(data.market_cap.v, data.debt.v), data.cash.v))]
    ELSE data

get_financial_data(p, ticker) ==
    LET info == p.info
        shares_outstanding == PerMillion(Get(info, "sharesOutstanding", PyFloat(Zero)))
        market_cap == PerMillion(Get(info, "marketCap", PyFloat(Zero)))
        enterprise_value ==
            IF Truthy(Get(info, "enterpriseValue", PyNone))
            THEN PerMillion(Get(info, "enterpriseValue", PyFloat(Zero)))
            ELSE Return(PyFloat(Zero))
        debt == LatestPerMillion(p.balance_sheet, "Total Debt")
        cash == LatestPerMillion(p.balance_sheet, "Cash And Cash Equivalents")
        last_fcf == LatestPerMillion(p.cashflow, "Free Cash Flow")
        revenue == LatestPerMillion(p.financials, "Total Revenue")
        industry == Get(info, "industry", PyStr("N/A"))
        failed == FirstRaised(<<shares_outstanding, market_cap, enterprise_value,
                                debt, cash, last_fcf, revenue>>, 1)
    IN  IF ~p.up
        THEN MRaise("ValueError", <<"Error fetching data for ", ticker, ": ", "ConnectionError">>)
        ELSE IF failed # <<>>
        THEN MRaise("ValueError", <<"Error fetching data for ", ticker, ": ", failed[1]>>)
        ELSE MReturn(Synthesise(
                [shares_outstanding |-> shares_outstanding.val,
                 market_cap |-> market_cap.val,
                 enterprise_value |-> enterprise_value.val,
                 debt |-> debt.val,
                 cash |-> cash.val,
                 last_fcf |-> last_fcf.val,
                 revenue |-> revenue.val,
                 industry |-> industry]))

(***************************************************************************)
(* DCFDataManager                                                          *)
(***************************************************************************)
required_params ==
    <<"enterprise_value", "debt", "cash", "shares_outstanding",
      "last_fcf", "growth_rate", "wacc", "terminal_growth_rate">>

\* Merge with the operands exchanged: {**assumptions, **financial_data}
Merge_FetchedWins(financial_data, assumptions) ==
    [k \in DOMAIN financial_data \cup DOMAIN assumptions |->
        IF k \in DOMAIN financial_data THEN financial_data[k] ELSE assumptions[k]]

\* {**financial_data, **assumptions}
Merge(financial_data, assumptions) ==
    [k \in DOMAIN financial_data \cup DOMAIN assumptions |->
        IF k \in DOMAIN assumptions THEN assumptions[k] ELSE financial_data[k]]

IsMissing(dcf_params, q) == q \notin DOMAIN dcf_params \/ IsNone(dcf_params[q])

\* missing_params stopping at the first missing field
missing_params_FirstOnly(dcf_params) ==
    LET all == SelectSeq(required_params, LAMBDA q : IsMissing(dcf_params, q))
    IN  IF all = <<>> THEN <<>> ELSE <<all[1]>>

missing_params(dcf_params) ==
    SelectSeq(required_params, LAMBDA q : IsMissing(dcf_params, q))

\* lines 133-144: merge, validate, return
Validate(financial_data, assumptions) ==
    LET dcf_params == Merge(financial_data, assumptions)
        missing == missing_params(dcf_params)
    IN  IF missing # <<>>
        THEN MRaise("ValueError", <<"Missing required parameters: ", missing>>)
        ELSE MReturn(dcf_params)

load_from_yahoo(p, processor, assumptions) ==
    LET financial_data == get_financial_data(p, processor.ticker)
    IN  IF Raised(financial_data) THEN financial_data
        ELSE Validate(financial_data.val, assumptions)

(***************************************************************************)
(* The provider's data and the caller's assumptions.                       *)
(***************************************************************************)
Cell(key) ==
    CASE key = "Total Debt" -> PyFloat(Num(200000000))
      [] key = "Long Term Debt" -> PyFloat(Num(150000000))
      [] key = "Total Liabilities Net Minority Interest" -> PyFloat(Num(300000000))
      [] key = "Cash" -> PyFloat(Num(40000000))
      [] key = "Cash And Cash Equivalents" -> PyFloat(Num(50000000))
      [] key = "Cash and Short Term Investments" -> PyFloat(Num(70000000))
      [] key = "Free Cash Flow" -> PyFloat(Num(60000000))
      [] key = "Operating Cash Flow" -> PyFloat(Num(90000000))
      [] key = "Total Revenue" -> PyFloat(Num(400000000))
      [] key = "Revenue" -> PyFloat(Num(410000000))
      [] key = "Net Sales" -> PyFloat(Num(420000000))
      [] OTHER -> PyFloat(Num(1000000))

Statement(keys) == [k \in keys |-> Cell(k)]

InfoValues(key) ==
    CASE key = "sharesOutstanding" -> {PyFloat(Num(100000000))}
      [] key = "marketCap" -> {PyNone, PyFloat(Zero), PyFloat(Num(500000000)),
                               PyFloat(Num(-500000000))}
      [] key = "enterpriseValue" -> {PyNone, PyFloat(Zero), PyFloat(Num(1000000000))}
      [] OTHER -> {PyStr("Technology")}

InfoMaps(keys) ==
    UNION {{m \in [S -> UNION {InfoValues(k) : k \in S}] :
                \A k \in S : m[k] \in InfoValues(k)} : S \in SUBSET keys}

Providers ==
    [up : {TRUE}, requests : {0},
     info : InfoMaps({"sharesOutstanding", "marketCap", "enterpriseValue"}),
     balance_sheet : {Statement(S) : S \in SUBSET
        {"Total Debt", "Cash And Cash Equivalents"}},
     cashflow : {Statement(S) : S \in SUBSET {"Free Cash Flow", "Operating Cash Flow"}},
     financials : {Statement({"Total Revenue"})}]
    \cup
    [up : {FALSE}, requests : {0}, info : {<<>>}, balance_sheet : {<<>>},
     cashflow : {<<>>}, financials : {<<>>}]

Tickers == {"aapl", "MSFT"}

\* the three assumptions the caller is meant to supply, any of them left out
BaseAssumptions ==
    LET all == [growth_rate |-> PyFloat(Rat(1, 20)),
                wacc |-> PyFloat(Rat(2, 25)),
                terminal_growth_rate |-> PyFloat(Rat(1, 50))]
    IN  {[k \in S |-> all[k]] : S \in SUBSET DOMAIN all}

\* further entries of the assumption map
ExtraAssumptions ==
    {<<>>,
     [debt |-> PyFloat(Num(777))],
     [last_fcf |-> PyNone],
     [wacc |-> PyStr("8%")],
     [enterprise_value |-> PyNone, cash |-> PyNone]}

AssumptionMaps == {x @@ b : b \in BaseAssumptions, x \in ExtraAssumptions}

(***************************************************************************)
(* FileDataProcessor                                                       *)
(*                                                                         *)
(* A parsed table is the sequence of its columns, each with its name and   *)
(* the cell of its first row.                                              *)
(***************************************************************************)
Column(name, cell) == [name |-> name, cell |-> cell]

\* str.lower() on the column names and aliases that occur
Lower(name) ==
    CASE name \in {"enterprise_value", "ENTERPRISE_VALUE"} -> "enterprise_value"
      [] name \in {"Enterprise Value"} -> "enterprise value"
      [] name \in {"EV", "ev"} -> "ev"
      [] name \in {"debt", "Debt", "DEBT"} -> "debt"
      [] name \in {"total_debt", "Total_Debt"} -> "total_debt"
      [] name \in {"Total Debt", "TOTAL DEBT"} -> "total debt"
      [] name \in {"cash", "Cash", "CASH"} -> "cash"
      [] name \in {"Cash And Cash Equivalents"} -> "cash and cash equivalents"
      [] name \in {"shares_outstanding", "Shares_Outstanding"} -> "shares_outstanding"
      [] name \in {"Shares Outstanding"} -> "shares outstanding"
      [] name \in {"shares", "SHARES"} -> "shares"
      [] name \in {"last_fcf", "Last_FCF"} -> "last_fcf"
      [] name \in {"fcf", "FCF"} -> "fcf"
      [] name \in {"Free Cash Flow"} -> "free cash flow"
      [] name \in {"growth_rate", "GROWTH_RATE"} -> "growth_rate"
      [] name \in {"Growth Rate", "GROWTH RATE"} -> "growth rate"
      [] name \in {"FCF Growth"} -> "fcf growth"
      [] name \in {"wacc", "WACC", "Wacc"} -> "wacc"
      [] name \in {"discount_rate", "Discount_Rate"} -> "discount_rate"
      [] name \in {"terminal_growth_rate", "Terminal_Growth_Rate"} -> "terminal_growth_rate"
      [] name \in {"Terminal Growth"} -> "terminal growth"
      [] name \in {"terminal_growth", "TERMINAL_GROWTH"} -> "terminal_growth"
      [] name \in {"industry", "Industry", "INDUSTRY"} -> "industry"
      [] name \in {"csv", "CSV"} -> "csv"
      [] name \in {"xlsx", "XLSX"} -> "xlsx"
      [] name \in {"excel", "Excel"} -> "excel"
      [] OTHER -> name

\* required_columns, in the order of the dictionary
required_columns ==
    << <<"enterprise_value", <<"enterprise_value", "Enterprise Value", "EV">> >>,
       <<"debt", <<"debt", "total_debt", "Total Debt", "Debt">> >>,
       <<"cash", <<"cash", "Cash", "Cash And Cash Equivalents">> >>,
       <<"shares_outstanding", <<"shares_outstanding", "Shares Outstanding", "shares">> >>,
       <<"last_fcf", <<"last_fcf", "FCF", "Free Cash Flow", "fcf">> >>,
       <<"growth_rate", <<"growth_rate", "Growth Rate", "FCF Growth">> >>,
       <<"wacc", <<"wacc", "WACC", "discount_rate">> >>,
       <<"terminal_growth_rate",
         <<"terminal_growth_rate", "Terminal Growth", "terminal_growth">> >>,
       <<"industry", <<"industry", "Industry">> >> >>

\* the first position from i on at which names holds name, 0 if none
RECURSIVE IndexOf(_, _, _)
IndexOf(names, name, i) ==
    IF i > Len(names) THEN 0
    ELSE IF names[i] = name THEN i
    ELSE IndexOf(names, name, i + 1)

\* the loop of lines 108-110 from alias i on: a column named exactly alike
RECURSIVE ExactMatch(_, _, _)
ExactMatch(df, possible_columns, i) ==
    IF i > Len(possible_columns) THEN PyNone
    ELSE LET at == IndexOf([c \in 1..Len(df) |-> df[c].name], possible_columns[i], 1)
         IN  IF at # 0 THEN df[at].cell
             ELSE ExactMatch(df, possible_columns, i + 1)

\* the loop of lines 113-119 from alias i on: a column alike but for case
RECURSIVE CaseInsensitiveMatch(_, _, _)
CaseInsensitiveMatch(df, possible_columns, i) ==
    IF i > Len(possible_columns) THEN PyNone
    ELSE LET df_cols_lower == [c \in 1..Len(df) |-> Lower(df[c].name)]
             idx == IndexOf(df_cols_lower, Lower(possible_columns[i]), 1)
         IN  IF idx # 0 THEN df[idx].cell
             ELSE CaseInsensitiveMatch(df, possible_columns, i + 1)

\* _find_value_in_df with the case-insensitive pass alone
_find_value_in_df_IgnoringCaseOnly(df, possible_columns) ==
    CaseInsensitiveMatch(df, possible_columns, 1)

_find_value_in_df(df, possible_columns) ==
    LET exact == ExactMatch(df, possible_columns, 1)
    IN  IF ~IsNone(exact) THEN exact
        ELSE CaseInsensitiveMatch(df, possible_columns, 1)

\* Coerce without the float() of line 93: the value as the reader gave it
Coerce_AsRead(value) == value

\* lines 92-95: float(value), the value itself when it does not convert
Coerce(value) ==
    LET f == ToFloat(value)
    IN  IF f.exc \in {"ValueError", "TypeError"} THEN value ELSE f.val

\* Extract leaving out a parameter no column was found for, required or not
RECURSIVE Extract_SkippingUnmatched(_, _, _)
Extract_SkippingUnmatched(df, i, data) ==
    IF i > Len(required_columns) THEN Return(data)
    ELSE LET param == required_columns[i][1]
             value == _find_value_in_df(df, required_columns[i][2])
         IN  IF ~IsNone(value)
             THEN Extract_SkippingUnmatched(df, i + 1, (param :> Coerce(value)) @@ data)
             ELSE Extract_SkippingUnmatched(df, i + 1, data)

\* the loop of lines 89-97 from parameter i on, data as filled so far
RECURSIVE Extract(_, _, _)
Extract(df, i, data) ==
    IF i > Len(required_columns) THEN Return(data)
    ELSE LET param == required_columns[i][1]
             value == _find_value_in_df(df, required_columns[i][2])
         IN  IF ~IsNone(value)
             THEN Extract(df, i + 1, (param :> Coerce(value)) @@ data)
             ELSE IF param # "industry"
             THEN [exc |-> "ValueError", val |-> NoValue,
                   msg |-> <<"Could not find column for parameter: ", param>>]
             ELSE Extract(df, i + 1, data)

\* file_path.endswith(suffix), on the paths that occur
EndsWith(file_path, suffix) ==
    CASE suffix = ".csv" -> file_path \in {"params.csv", "missing.csv"}
      [] suffix = ".xlsx" -> file_path \in {"params.xlsx"}
      [] suffix = ".xls" -> file_path \in {"params.xls"}
      [] OTHER -> FALSE

\* A file is the table it stores and the format it stores it in: a csv file
\* stores every cell as text, an Excel workbook stores numbers and text.

\* df.to_csv(index=False): a float is written as its repr
to_csv(df) ==
    [format |-> "csv",
     df |-> [c \in 1..Len(df) |->
                Column(df[c].name,
                       IF df[c].cell.t = "float" THEN PyStr(Repr(df[c].cell.v))
                       ELSE df[c].cell)]]

\* pd.read_csv: a cell that spells a number is read as that number
read_csv(file) ==
    [c \in 1..Len(file.df) |->
        LET number == ParseFloat(file.df[c].cell.v[1])
        IN  Column(file.df[c].name,
                   IF Raised(number) THEN file.df[c].cell ELSE number.val)]

\* df.to_excel(index=False)
to_excel(df) == [format |-> "excel", df |-> df]

\* pd.read_excel: a numeric cell holding a whole number is read as an int
read_excel(file) ==
    [c \in 1..Len(file.df) |->
        Column(file.df[c].name,
               IF file.df[c].cell.t = "float" /\ file.df[c].cell.v[2] = 1
               THEN PyInt(file.df[c].cell.v)
               ELSE file.df[c].cell)]

\* the table a file holds, read by the reader of its own format
Parsed(file) == IF file.format = "csv" THEN read_csv(file) ELSE read_excel(file)

\* pd.read_csv / pd.read_excel of the file at file_path
ReadTable(files, file_path, reader) ==
    IF file_path \notin DOMAIN files
    THEN [exc |-> "FileNotFoundError", val |-> NoValue,
          msg |-> <<"No such file or directory: ", file_path>>]
    ELSE IF files[file_path].format # reader
    THEN [exc |-> "ParserError", val |-> NoValue,
          msg |-> <<"Error tokenizing data">>]
    ELSE Return(Parsed(files[file_path]))

load_from_file(files, file_path) ==
    LET read ==
            IF EndsWith(file_path, ".csv") THEN ReadTable(files, file_path, "csv")
            ELSE IF EndsWith(file_path, ".xlsx") \/ EndsWith(file_path, ".xls")
            THEN ReadTable(files, file_path, "excel")
            ELSE [exc |-> "ValueError", val |-> NoValue,
                  msg |-> <<"Unsupported file format. Please use CSV or Excel files.">>]
        data == IF Raised(read) THEN read ELSE Extract(read.val, 1, <<>>)
    IN  IF Raised(data)
        THEN MRaise("ValueError", <<"Error loading file ", file_path, ": ">> \o data.msg)
        ELSE MReturn(data.val)

\* template_data of create_template_file, as the one-row DataFrame
template_data ==
    <<Column("enterprise_value", PyFloat(Num(1000))),
      Column("debt", PyFloat(Num(200))),
      Column("cash", PyFloat(Num(50))),
      Column("shares_outstanding", PyFloat(Num(100))),
      Column("last_fcf", PyFloat(Num(60))),
      Column("growth_rate", PyFloat(Rat(1, 20))),
      Column("wacc", PyFloat(Rat(2, 25))),
      Column("terminal_growth_rate", PyFloat(Rat(1, 50))),
      Column("industry", PyStr("Technology"))>>

\* create_template_file writing csv for every tag that is not an Excel one
create_template_file_CsvByDefault(files, file_path, file_type) ==
    IF Lower(file_type) \in {"xlsx", "excel"} /\ ~EndsWith(file_path, ".xlsx")
    THEN [ret |-> MRaise("ValueError", <<"No engine for filetype">>), files |-> files]
    ELSE [ret |-> MReturn(PyNone),
          files |-> (file_path :> IF Lower(file_type) \in {"xlsx", "excel"}
                                  THEN to_excel(template_data)
                                  ELSE to_csv(template_data)) @@ files]

\* create_template_file(file_path, file_type): what it returns or raises, and
\* the files there are afterwards. to_excel picks its writer by the extension
\* of file_path and has one for .xlsx alone.
create_template_file(files, file_path, file_type) ==
    LET df == template_data
    IN  IF Lower(file_type) = "csv"
        THEN [ret |-> MReturn(PyNone), files |-> (file_path :> to_csv(df)) @@ files]
        ELSE IF Lower(file_type) \in {"xlsx", "excel"}
        THEN IF EndsWith(file_path, ".xlsx")
             THEN [ret |-> MReturn(PyNone),
                   files |-> (file_path :> to_excel(df)) @@ files]
             ELSE [ret |-> MRaise("ValueError", <<"No engine for filetype">>),
                   files |-> files]
        ELSE [ret |-> MRaise("ValueError",
                             <<"Supported file types: 'csv', 'xlsx', 'excel'">>),
              files |-> files]

(***************************************************************************)
(* The files the tabular path is driven with.                              *)
(***************************************************************************)
\* the one-row table of create_template_file
TemplateCell(param) ==
    CASE param = "enterprise_value" -> PyFloat(Num(1000))
      [] param = "debt" -> PyFloat(Num(200))
      [] param = "cash" -> PyFloat(Num(50))
      [] param = "shares_outstanding" -> PyFloat(Num(100))
      [] param = "last_fcf" -> PyFloat(Num(60))
      [] param = "growth_rate" -> PyFloat(Rat(1, 20))
      [] param = "wacc" -> PyFloat(Rat(2, 25))
      [] param = "terminal_growth_rate" -> PyFloat(Rat(1, 50))
      [] OTHER -> PyStr("Technology")

\* the columns a table may hold for debt: up to MaxCols of these names, in
\* any order, the cell telling the columns apart
DebtNames == {"debt", "Debt", "DEBT", "total_debt", "Total_Debt", "Total Debt"}

DebtColumns ==
    UNION {{[i \in 1..n |-> Column(names[i], PyFloat(Num(200 + i)))] :
                names \in {q \in [1..n -> DebtNames] :
                            \A i, j \in 1..n : i # j => q[i] # q[j]}} :
           n \in 0..MaxCols}

\* the other parameters: the template's column, or one of these in its place
OtherParams ==
    {"enterprise_value", "cash", "shares_outstanding", "last_fcf",
     "growth_rate", "wacc", "terminal_growth_rate", "industry"}

Edited(param, e) ==
    CASE e = 1 -> <<>>
      [] e = 2 -> <<Column(CASE param = "enterprise_value" -> "EV"
                             [] param = "cash" -> "Cash And Cash Equivalents"
                             [] param = "shares_outstanding" -> "shares"
                             [] param = "last_fcf" -> "FCF"
                             [] param = "growth_rate" -> "Growth Rate"
                             [] param = "wacc" -> "discount_rate"
                             [] param = "terminal_growth_rate" -> "Terminal Growth"
                             [] OTHER -> "Industry",
                           TemplateCell(param))>>
      [] e = 3 -> <<Column(CASE param = "enterprise_value" -> "ENTERPRISE_VALUE"
                             [] param = "cash" -> "CASH"
                             [] param = "shares_outstanding" -> "SHARES"
                             [] param = "last_fcf" -> "Last_FCF"
                             [] param = "growth_rate" -> "GROWTH RATE"
                             [] param = "wacc" -> "Wacc"
                             [] param = "terminal_growth_rate" -> "TERMINAL_GROWTH"
                             [] OTHER -> "INDUSTRY",
                           TemplateCell(param))>>
      [] e = 4 -> <<Column(param, PyStr("8%"))>>
      [] OTHER -> <<Column(param, PyStr("12.5"))>>

\* no edit, one edit, or two columns dropped
Edits ==
    {<<>>}
    \cup {(param :> e) : param \in OtherParams, e \in 1..5}
    \cup {(a :> 1) @@ (b :> 1) : a \in OtherParams, b \in OtherParams}

ColumnsOf(param, debt_columns, edits) ==
    IF param = "debt" THEN debt_columns
    ELSE IF param \in DOMAIN edits THEN Edited(param, edits[param])
    ELSE <<Column(param, TemplateCell(param))>>

RECURSIVE TableFrom(_, _, _)
TableFrom(i, debt_columns, edits) ==
    IF i > Len(required_columns) THEN <<>>
    ELSE ColumnsOf(required_columns[i][1], debt_columns, edits)
            \o TableFrom(i + 1, debt_columns, edits)

Tables == {TableFrom(1, d, e) : d \in DebtColumns, e \in Edits}

Template == TableFrom(1, <<Column("debt", TemplateCell("debt"))>>, <<>>)

Paths == {"params.csv", "params.xlsx", "params.xls", "params.txt", "missing.csv"}

Disks ==
    {("params.csv" :> to_csv(t)) : t \in Tables}
    \cup {(f :> to_excel(Template)) : f \in {"params.xlsx", "params.xls"}}
    \cup {("params.txt" :> to_csv(Template))}

FileTypes == {"csv", "CSV", "xlsx", "excel", "xls", "json"}

LoadFromFile ==
    /\ mgrCall = NoCall
    /\ \E file_path \in Paths :
        /\ mgrCall' = [op |-> "load_from_file", file_path |-> file_path]
        /\ mgrRet' = load_from_file(disk, file_path)
    /\ UNCHANGED <<provider, yahoo_processor, disk, dcfVars, bsmVars>>

\* _find_value_in_df(df, possible_cols) for a parameter, on a table read
FindValueInDf ==
    /\ mgrCall = NoCall
    /\ \E file_path \in DOMAIN disk, i \in 1..Len(required_columns) :
        /\ mgrCall' = [op |-> "_find_value_in_df", file_path |-> file_path,
                       param |-> required_columns[i][1],
                       possible_columns |-> required_columns[i][2]]
        /\ mgrRet' = MReturn(_find_value_in_df(Parsed(disk[file_path]),
                                               required_columns[i][2]))
    /\ UNCHANGED <<provider, yahoo_processor, disk, dcfVars, bsmVars>>

CreateTemplateFile ==
    /\ mgrCall = NoCall
    /\ \E file_path \in Paths, file_type \in FileTypes :
        LET done == create_template_file(disk, file_path, file_type)
        IN  /\ mgrCall' = [op |-> "create_template_file", file_path |-> file_path,
                           file_type |-> file_type]
            /\ mgrRet' = done.ret
            /\ disk' = done.files
    /\ UNCHANGED <<provider, yahoo_processor, dcfVars, bsmVars>>

\* the statements the alias lookup is driven with: every subset of synonyms
AliasProviders ==
    [up : {TRUE}, requests : {0},
     info : {<<>>},
     balance_sheet : {Statement(S) : S \in SUBSET
        {"Total Debt", "Long Term Debt", "Total Liabilities Net Minority Interest",
         "Cash", "Cash And Cash Equivalents", "Cash and Short Term Investments"}},
     cashflow : {Statement(S) : S \in SUBSET {"Free Cash Flow", "Operating Cash Flow"}},
     financials : {Statement(S) : S \in SUBSET {"Total Revenue", "Revenue", "Net Sales"}}]

StatementNames == {"balance_sheet", "cashflow", "financials"}
CanonicalKeys ==
    {"Total Debt", "Cash And Cash Equivalents", "Free Cash Flow", "Total Revenue"}

NoProcessor == [ticker |-> ""]

MgrIdle ==
    /\ mgrCall = NoCall
    /\ mgrRet = MReturn(NoValue)

DCFParked == dcf = <<>> /\ DCFIdle

\* one pass of get_financial_data over the provider's four items
Requested(p) == [p EXCEPT !.requests = @ + 1]

LoadFromYahoo ==
    /\ mgrCall = NoCall
    /\ provider.requests < MaxRequests
    /\ \E ticker \in Tickers, assumptions \in AssumptionMaps :
        /\ yahoo_processor' = YahooFinanceDataProcessor(ticker)
        /\ mgrCall' = [op |-> "load_from_yahoo", ticker |-> ticker,
                       assumptions |-> assumptions]
        /\ mgrRet' = load_from_yahoo(provider, yahoo_processor', assumptions)
    /\ provider' = Requested(provider)
    /\ UNCHANGED <<disk, dcfVars, bsmVars>>

\* yahoo_processor.get_financial_data() on the processor of the last fetch
GetFinancialData ==
    /\ mgrCall = NoCall
    /\ yahoo_processor # NoProcessor
    /\ provider.requests < MaxRequests
    /\ mgrCall' = [op |-> "get_financial_data"]
    /\ mgrRet' = get_financial_data(provider, yahoo_processor.ticker)
    /\ provider' = Requested(provider)
    /\ UNCHANGED <<yahoo_processor, disk, dcfVars, bsmVars>>

\* _get_latest_value(df, key) on one of the provider's statements
GetLatestValue ==
    /\ mgrCall = NoCall
    /\ \E df \in StatementNames, key \in CanonicalKeys :
        /\ mgrCall' = [op |-> "_get_latest_value", df |-> df, key |-> key]
        /\ mgrRet' = MReturn(_get_latest_value(provider[df], key).val)
    /\ UNCHANGED <<provider, yahoo_processor, disk, dcfVars, bsmVars>>

\* the caller takes the result or the error; the call's frame is gone
ReturnToCaller ==
    /\ mgrCall # NoCall
    /\ mgrCall' = NoCall
    /\ mgrRet' = MReturn(NoValue)
    /\ UNCHANGED <<provider, yahoo_processor, disk, dcfVars, bsmVars>>

(***************************************************************************)
(* Specifications.                                                         *)
(***************************************************************************)
\* DiscountedCashFlowModel(...)
DCFInit ==
    /\ dcf \in DCFModels
    /\ DCFIdle
    /\ provider = <<>>
    /\ yahoo_processor = NoProcessor
    /\ disk = <<>>
    /\ MgrIdle
    /\ BSMParked

SpecDCF == DCFInit /\ [][DCFNext]_vars

\* BlackScholesModel(...)
BSMInit ==
    /\ bsm \in BSModels
    /\ BSMIdle
    /\ DCFParked
    /\ provider = <<>>
    /\ yahoo_processor = NoProcessor
    /\ disk = <<>>
    /\ MgrIdle

SpecOption == BSMInit /\ [][BSMNext]_vars

\* obj.name = value on an instance whose fields are plain attributes
setattr_Ignored(m, name, value) == m

setattr(m, name, value) == [m EXCEPT ![name] = value]

\* the fields the caller goes on to assign, and the values it assigns
DCFAssigned == [wacc |-> {Zero, One}]
BSMAssigned == [sigma |-> {Rat(1, 2), One}]

SetDCFField ==
    \E name \in DOMAIN DCFAssigned :
        \E value \in DCFAssigned[name] :
            /\ dcf' = setattr(dcf, name, value)
            /\ dcfCall' = [op |-> "__setattr__", name |-> name, value |-> value]
            /\ dcfRet' = Return(NoValue)
            /\ UNCHANGED <<bsmVars, mgrVars>>

SetBSMField ==
    \E name \in DOMAIN BSMAssigned :
        \E value \in BSMAssigned[name] :
            /\ bsm' = setattr(bsm, name, value)
            /\ bsmCall' = [op |-> "__setattr__", name |-> name, value |-> value]
            /\ bsmRet' = NoValue
            /\ UNCHANGED <<dcfVars, mgrVars>>

\* the two engines as first constructed
ExampleDCF ==
    [enterprise_value |-> Num(1000), debt |-> Num(200), cash |-> Num(50),
     shares_outstanding |-> Num(100), last_fcf |-> Num(60),
     growth_rate |-> One, wacc |-> One, terminal_growth_rate |-> Zero]

ExampleBSM ==
    [S0 |-> Num(50), K |-> Num(100), T |-> Num(4), r |-> Rat(1, 2), sigma |-> One]

\* DiscountedCashFlowModel(...) and BlackScholesModel(...), side by side
EnginesInit ==
    /\ dcf = ExampleDCF
    /\ DCFIdle
    /\ bsm = ExampleBSM
    /\ BSMIdle
    /\ provider = <<>>
    /\ yahoo_processor = NoProcessor
    /\ disk = <<>>
    /\ MgrIdle

EnginesNext ==
    \/ DCFNext
    \/ BSMNext
    \/ SetDCFField
    \/ SetBSMField

SpecEngines == EnginesInit /\ [][EnginesNext]_vars

\* DCFDataManager(), the provider holding any of its data sets
RemoteInit ==
    /\ provider \in Providers
    /\ yahoo_processor = NoProcessor
    /\ disk = <<>>
    /\ MgrIdle
    /\ DCFParked
    /\ BSMParked

RemoteNext ==
    \/ LoadFromYahoo
    \/ GetFinancialData
    \/ ReturnToCaller

SpecRemote == RemoteInit /\ [][RemoteNext]_vars

\* a processor built for a ticker, the statements holding any subset of synonyms
AliasInit ==
    /\ provider \in AliasProviders
    /\ yahoo_processor \in {YahooFinanceDataProcessor(t) : t \in Tickers}
    /\ disk = <<>>
    /\ MgrIdle
    /\ DCFParked
    /\ BSMParked

AliasNext ==
    \/ GetLatestValue
    \/ ReturnToCaller

SpecAlias == AliasInit /\ [][AliasNext]_vars

\* DCFDataManager(), a file of any of the tables on the disk
FileInit ==
    /\ disk \in Disks
    /\ provider = <<>>
    /\ yahoo_processor = NoProcessor
    /\ MgrIdle
    /\ DCFParked
    /\ BSMParked

FileNext ==
    \/ LoadFromFile
    \/ FindValueInDf
    \/ ReturnToCaller

SpecFile == FileInit /\ [][FileNext]_vars

\* the providers the manager as a whole is driven with: a company with all
\* its data, and a provider that cannot be reached
ListedCompany ==
    [up |-> TRUE, requests |-> 0,
     info |-> ("sharesOutstanding" :> PyFloat(Num(100000000)))
                @@ ("marketCap" :> PyFloat(Num(500000000)))
                @@ ("enterpriseValue" :> PyFloat(Num(1000000000))),
     balance_sheet |-> Statement({"Total Debt", "Cash And Cash Equivalents"}),
     cashflow |-> Statement({"Free Cash Flow"}),
     financials |-> Statement({"Total Revenue"})]

\* the same company with one item of its data unusable: a null or a textual
\* cell in the balance sheet, a null number in info
UnusableCompanies ==
    {[ListedCompany EXCEPT !.balance_sheet["Total Debt"] = PyNone],
     [ListedCompany EXCEPT !.balance_sheet["Total Debt"] = PyStr("N/A")],
     [ListedCompany EXCEPT !.info["sharesOutstanding"] = PyNone]}

ManagerProviders ==
    {ListedCompany} \cup UnusableCompanies \cup {p \in Providers : ~p.up}

\* DCFDataManager(), nothing written yet
ManagerInit ==
    /\ provider \in ManagerProviders
    /\ yahoo_processor = NoProcessor
    /\ disk = <<>>
    /\ MgrIdle
    /\ DCFParked
    /\ BSMParked

ManagerNext ==
    \/ LoadFromYahoo
    \/ LoadFromFile
    \/ CreateTemplateFile
    \/ ReturnToCaller

SpecManager == ManagerInit /\ [][ManagerNext]_vars

(***************************************************************************)
(* Claims about the DCF engine.                                            *)
(***************************************************************************)

\* C1: whenever wacc equals terminal_growth_rate, calculate_terminal_value
\* returns exactly 0 and raises nothing, whatever final_fcf is.
C1_TerminalValueZeroWhenRatesEqual ==
    (dcfCall.op = "calculate_terminal_value"
        /\ dcf.wacc = dcf.terminal_growth_rate)
    => dcfRet = Return(Zero)

\* C2: whenever shares_outstanding is 0, calculate_intrinsic_value(years)
\* with years >= 1 returns 0 and raises nothing.
C2_IntrinsicValueZeroWhenNoShares ==
    (dcfCall.op = "calculate_intrinsic_value"
        /\ dcfCall.years >= 1
        /\ IsZero(dcf.shares_outstanding))
    => dcfRet = Return(Zero)

\* C3: no method of the DCF engine ever raises: every call of
\* calculate_implied_share_price, project_free_cash_flows,
\* calculate_terminal_value, calculate_present_value and
\* calculate_intrinsic_value completes with a value.
C3_EngineNeverRaises ==
    dcfCall.op \in {"calculate_implied_share_price", "project_free_cash_flows",
                    "calculate_terminal_value", "calculate_present_value",
                    "calculate_intrinsic_value"}
    => (~Raised(dcfRet) /\ dcfRet.val # NoValue)


(***************************************************************************)
(* Claims about the remote path of the resolver.                           *)
(***************************************************************************)
Range(seq) == {seq[i] : i \in 1..Len(seq)}

\* what the provider fetch of the call in progress yields
Fetched == get_financial_data(provider, yahoo_processor.ticker)

FetchedAndMerged == mgrCall.op = "load_from_yahoo" /\ ~Raised(Fetched)

MissingParameterError(r) ==
    /\ r.exc = "ValueError"
    /\ r.msg[1] = "Missing required parameters: "

\* C4: when the provider's cash-flow statement holds no free cash flow under
\* any synonym and the assumptions do not supply last_fcf, load_from_yahoo
\* fails with a missing-parameter error that names last_fcf.
C4_MissingFcfIsReported ==
    (FetchedAndMerged
        /\ DOMAIN provider.cashflow \cap {"Free Cash Flow", "Operating Cash Flow"} = {}
        /\ "last_fcf" \notin DOMAIN mgrCall.assumptions)
    => (MissingParameterError(mgrRet) /\ "last_fcf" \in Range(mgrRet.msg[2]))

\* a required field is absent or null once the assumptions are laid over the
\* fetched fields
AbsentOrNull(fetched, f) ==
    IF f \in DOMAIN mgrCall.assumptions
    THEN IsNone(mgrCall.assumptions[f])
    ELSE f \notin DOMAIN fetched \/ IsNone(fetched[f])

\* C5: load_from_yahoo returns a map exactly when none of the eight required
\* fields is absent or null after the merge; otherwise it raises one error
\* whose list is exactly the set of the required fields absent or null.
C5_ValidationNamesEveryMissingField ==
    FetchedAndMerged =>
        LET fetched == Fetched.val
            absent == {f \in DCFFields : AbsentOrNull(fetched, f)}
        IN  IF absent = {}
            THEN ~Raised(mgrRet) /\ DCFFields \subseteq DOMAIN mgrRet.val
            ELSE /\ MissingParameterError(mgrRet)
                 /\ Range(mgrRet.msg[2]) = absent
                 /\ Len(mgrRet.msg[2]) = Cardinality(absent)

\* C5 witness: a call that failed naming more than one missing field
C5_Witness ==
    /\ FetchedAndMerged
    /\ MissingParameterError(mgrRet)
    /\ Len(mgrRet.msg[2]) >= 2

\* C8: in the map load_from_yahoo returns, every fetched key that the
\* assumption map also holds carries the assumption's value, and every
\* fetched key the assumption map does not hold keeps its fetched value.
C8_AssumptionsTakePrecedence ==
    (FetchedAndMerged /\ ~Raised(mgrRet)) =>
        LET fetched == Fetched.val
        IN  \A k \in DOMAIN fetched :
                IF k \in DOMAIN mgrCall.assumptions
                THEN mgrRet.val[k] = mgrCall.assumptions[k]
                ELSE mgrRet.val[k] = fetched[k]

\* C8 witness: a returned map for a call whose assumptions override a fetched
\* key with another value
C8_Witness ==
    /\ FetchedAndMerged
    /\ ~Raised(mgrRet)
    /\ "debt" \in DOMAIN mgrCall.assumptions
    /\ mgrCall.assumptions["debt"] # Fetched.val["debt"]
    /\ "cash" \notin DOMAIN mgrCall.assumptions

EnterpriseValueZeroOrAbsent ==
    \/ "enterpriseValue" \notin DOMAIN provider.info
    \/ IsNone(provider.info["enterpriseValue"])
    \/ IsZero(provider.info["enterpriseValue"].v)

MarketCapPositive ==
    /\ "marketCap" \in DOMAIN provider.info
    /\ IsNumeric(provider.info["marketCap"])
    /\ provider.info["marketCap"].v[1] > 0

\* C9: when the provider's enterprise value is zero or absent and its market
\* capitalisation is positive, the resolved enterprise_value is
\* market_cap + debt - cash, each in millions (raw value / 1,000,000).
C9_EnterpriseValueSynthesised ==
    (mgrCall.op = "get_financial_data" /\ ~Raised(mgrRet)
        /\ EnterpriseValueZeroOrAbsent /\ MarketCapPositive)
    => LET market_cap == RQuot(provider.info["marketCap"].v, Num(Million))
       IN  /\ mgrRet.val.market_cap = PyFloat(market_cap)
           /\ mgrRet.val.enterprise_value =
                PyFloat(RSub(RAdd(market_cap, mgrRet.val.debt.v), mgrRet.val.cash.v))

\* C9 witness: a synthesis with debt and cash both resolved and different
C9_Witness ==
    /\ mgrCall.op = "get_financial_data"
    /\ ~Raised(mgrRet)
    /\ EnterpriseValueZeroOrAbsent
    /\ MarketCapPositive
    /\ ~IsZero(mgrRet.val.debt.v)
    /\ ~IsZero(mgrRet.val.cash.v)
    /\ mgrRet.val.debt # mgrRet.val.cash

(***************************************************************************)
(* Claims about the synonym lookup.                                        *)
(***************************************************************************)
LookupDone == mgrCall.op = "_get_latest_value"
LookupFrame == provider[mgrCall.df]
LookupSynonyms == _get_alternative_keys(mgrCall.key)
SynonymsPresent ==
    {i \in 1..Len(LookupSynonyms) : LookupSynonyms[i] \in DOMAIN LookupFrame}
FirstSynonymPresent ==
    LookupSynonyms[CHOOSE i \in SynonymsPresent : \A j \in SynonymsPresent : i <= j]

\* C7 as stated: the lookup resolves to the value of the first synonym, in
\* the order of the synonym list, that the raw field map holds.
C7_FirstSynonymInListOrder ==
    (LookupDone /\ SynonymsPresent # {})
    => mgrRet.val = LookupFrame[FirstSynonymPresent]

\* C7 amended: the lookup resolves to the value under the requested key
\* itself (Total Debt, Cash And Cash Equivalents, Free Cash Flow, Total
\* Revenue) when the raw field map holds it; otherwise to the value of the
\* first synonym in list order that it holds; to 0.0 when it holds none.
C7_RequestedKeyThenListOrder ==
    LookupDone =>
        mgrRet.val =
            IF mgrCall.key \in DOMAIN LookupFrame THEN LookupFrame[mgrCall.key]
            ELSE IF SynonymsPresent # {} THEN LookupFrame[FirstSynonymPresent]
            ELSE PyFloat(Zero)

\* C7 witness: cash looked up in a balance sheet holding both Cash and
\* Cash And Cash Equivalents
C7_Witness ==
    /\ LookupDone
    /\ mgrCall.key = "Cash And Cash Equivalents"
    /\ {"Cash", "Cash And Cash Equivalents"} \subseteq DOMAIN LookupFrame
    /\ mgrRet.val = LookupFrame["Cash And Cash Equivalents"]

(***************************************************************************)
(* Claims about the tabular path of the resolver.                          *)
(***************************************************************************)

\* C6: every field map the resolver returns, from load_from_yahoo or from
\* load_from_file, holds all eight required DCF fields, each with a numeric
\* value.
C6_ReturnedMapCompleteAndNumeric ==
    (mgrCall.op \in {"load_from_yahoo", "load_from_file"} /\ ~Raised(mgrRet))
    => \A f \in DCFFields : f \in DOMAIN mgrRet.val /\ IsNumeric(mgrRet.val[f])

FindDone == mgrCall.op = "_find_value_in_df"
FindFrame == Parsed(disk[mgrCall.file_path])
\* reading a file leaves the number and the names of its columns as stored
FindWidth == Len(disk[mgrCall.file_path].df)
FindName(c) == disk[mgrCall.file_path].df[c].name
FindColumns == {FindName(c) : c \in 1..FindWidth}
SameButForCase(a, b) == Lower(a) = Lower(b)

\* the aliases, by position, that equal a column name exactly / but for case
ExactAliases ==
    {i \in 1..Len(mgrCall.possible_columns) : mgrCall.possible_columns[i] \in FindColumns}
LooseAliases ==
    {i \in 1..Len(mgrCall.possible_columns) :
        \E name \in FindColumns : SameButForCase(mgrCall.possible_columns[i], name)}
Least(S) == CHOOSE i \in S : \A j \in S : i <= j

\* the first-row cell of the column named name
CellNamed(name) ==
    FindFrame[CHOOSE c \in 1..FindWidth : FindName(c) = name].cell

\* the first-row cell of the first column whose name is alias but for case
CellNamedLoosely(alias) ==
    FindFrame[Least({c \in 1..FindWidth : SameButForCase(FindName(c), alias)})].cell

\* C10: for each canonical field the value found is the first row of the
\* column named exactly as the first alias, in list order, that names a
\* column exactly; only when no alias names a column exactly, the first row
\* of the (first) column that the first alias, in list order, matching a
\* column case-insensitively matches; and nothing when no alias matches. So
\* a column named Debt in any letter case resolves canonical debt.
C10_ExactAliasThenCaseInsensitive ==
    FindDone =>
        /\ mgrRet.val =
            IF ExactAliases # {}
            THEN CellNamed(mgrCall.possible_columns[Least(ExactAliases)])
            ELSE IF LooseAliases # {}
            THEN CellNamedLoosely(mgrCall.possible_columns[Least(LooseAliases)])
            ELSE PyNone
        /\ (mgrCall.param = "debt" /\ \E name \in FindColumns : Lower(name) = "debt")
            => ~IsNone(mgrRet.val)

\* C10 witness: debt found through the case-insensitive pass in a table whose
\* first two columns differ only in case from aliases, the second column
\* matching the earlier alias
C10_Witness ==
    /\ FindDone
    /\ mgrCall.param = "debt"
    /\ ExactAliases = {}
    /\ Len(FindFrame) >= 2
    /\ FindFrame[1].name = "Total_Debt"
    /\ FindFrame[2].name = "DEBT"
    /\ mgrRet.val = FindFrame[2].cell

LoadDone == mgrCall.op = "load_from_file"

\* the load reached the table: the path names a file of the format that its
\* extension selects the reader of
TableWasRead ==
    /\ LoadDone
    /\ mgrCall.file_path \in DOMAIN disk
    /\ \/ /\ EndsWith(mgrCall.file_path, ".csv")
          /\ disk[mgrCall.file_path].format = "csv"
       \/ /\ EndsWith(mgrCall.file_path, ".xlsx") \/ EndsWith(mgrCall.file_path, ".xls")
          /\ disk[mgrCall.file_path].format = "excel"

Aliases(param) ==
    required_columns[CHOOSE i \in 1..Len(required_columns) :
                        required_columns[i][1] = param][2]

\* no alias of param names a column of the table, exactly or but for case
NoAliasMatches(param) ==
    \A i \in 1..Len(Aliases(param)), c \in 1..FindWidth :
        ~SameButForCase(Aliases(param)[i], FindName(c))

ColumnNotFound(path, param) ==
    MRaise("ValueError", <<"Error loading file ", path, ": ",
                           "Could not find column for parameter: ", param>>)

\* C11 as stated: for each of the eight required fields none of whose aliases
\* matches a column, load_from_file fails with an error naming that field and
\* returns no map; when only the industry column is absent it succeeds and
\* the returned map has no industry key.
C11_UnmatchedFieldIsNamed ==
    TableWasRead =>
        /\ \A f \in DCFFields :
                NoAliasMatches(f) =>
                    /\ Raised(mgrRet)
                    /\ mgrRet.val = NoValue
                    /\ f \in Range(mgrRet.msg)
        /\ ((\A f \in DCFFields : ~NoAliasMatches(f)) /\ NoAliasMatches("industry"))
                => (~Raised(mgrRet) /\ "industry" \notin DOMAIN mgrRet.val)

\* C11 amended: when one or more required fields have no matching column,
\* load_from_file fails with one error naming the first of them in the order
\* enterprise_value, debt, cash, shares_outstanding, last_fcf, growth_rate,
\* wacc, terminal_growth_rate (and none of the others), with the file path,
\* and returns no map; when every required field has a column it returns a
\* map with the eight fields, and with an industry key exactly when an
\* industry column is present.
C11_FirstUnmatchedFieldIsNamed ==
    TableWasRead =>
        LET unmatched ==
                {i \in 1..Len(required_params) : NoAliasMatches(required_params[i])}
        IN  IF unmatched # {}
            THEN mgrRet = ColumnNotFound(mgrCall.file_path,
                                         required_params[Least(unmatched)])
            ELSE /\ ~Raised(mgrRet)
                 /\ DCFFields \subseteq DOMAIN mgrRet.val
                 /\ "industry" \in DOMAIN mgrRet.val <=> ~NoAliasMatches("industry")

\* C11 witness: a table lacking the columns of cash and of wacc, the load
\* failing on cash
C11_Witness ==
    /\ TableWasRead
    /\ NoAliasMatches("cash")
    /\ NoAliasMatches("wacc")
    /\ mgrRet = ColumnNotFound(mgrCall.file_path, "cash")

(***************************************************************************)
(* Claims about template files. Under SpecManager every file there is was  *)
(* written by create_template_file.                                        *)
(***************************************************************************)
TemplateValues ==
    [enterprise_value |-> PyFloat(Num(1000)),
     debt |-> PyFloat(Num(200)),
     cash |-> PyFloat(Num(50)),
     shares_outstanding |-> PyFloat(Num(100)),
     last_fcf |-> PyFloat(Num(60)),
     growth_rate |-> PyFloat(Rat(1, 20)),
     wacc |-> PyFloat(Rat(2, 25)),
     terminal_growth_rate |-> PyFloat(Rat(1, 50)),
     industry |-> PyStr("Technology")]

TemplateLoaded == LoadDone /\ mgrCall.file_path \in DOMAIN disk

\* the template at the path loaded was written as csv under a name ending in
\* .csv, or as a workbook under a name ending in .xlsx
WrittenUnderOwnExtension ==
    \/ /\ EndsWith(mgrCall.file_path, ".csv")
       /\ disk[mgrCall.file_path].format = "csv"
    \/ /\ EndsWith(mgrCall.file_path, ".xlsx")
       /\ disk[mgrCall.file_path].format = "excel"

\* C12 as stated: for each supported format, load_from_file on a file that
\* create_template_file wrote returns exactly enterprise_value=1000, debt=200,
\* cash=50, shares_outstanding=100, last_fcf=60, growth_rate=0.05, wacc=0.08,
\* terminal_growth_rate=0.02, industry="Technology", and no other key.
C12_TemplateRoundTrip ==
    TemplateLoaded => mgrRet = MReturn(TemplateValues)

\* C12 amended: load_from_file on a file that create_template_file wrote
\* returns exactly the nine template values when the file was written as csv
\* under a name ending in .csv, or as xlsx under a name ending in .xlsx; a
\* template written under any other name is not read back: the load fails.
C12_TemplateRoundTripUnderOwnExtension ==
    TemplateLoaded =>
        IF WrittenUnderOwnExtension
        THEN mgrRet = MReturn(TemplateValues)
        ELSE Raised(mgrRet) /\ mgrRet.val = NoValue

\* C12 witness: the workbook template read back
C12_Witness ==
    /\ TemplateLoaded
    /\ mgrCall.file_path = "params.xlsx"
    /\ disk["params.xlsx"].format = "excel"
    /\ mgrRet = MReturn(TemplateValues)

UnsupportedFileType ==
    MRaise("ValueError", <<"Supported file types: 'csv', 'xlsx', 'excel'">>)

UnsupportedFileFormat(path) ==
    MRaise("ValueError", <<"Error loading file ", path, ": ",
                           "Unsupported file format. Please use CSV or Excel files.">>)

\* the step is a call of op by the caller
Calls(op) == mgrCall = NoCall /\ mgrCall'.op = op

\* C13 as stated: template generation with a format tag other than csv or
\* xlsx, and parsing of a file whose format (by its name) is other than csv
\* or xlsx, fail with an unsupported-format error, writing no file and
\* returning no map. (Taken here with any error counting as the failure.)
C13_OnlyCsvAndXlsxAccepted ==
    [][/\ (Calls("create_template_file")
            /\ Lower(mgrCall'.file_type) \notin {"csv", "xlsx"})
          => (Raised(mgrRet') /\ disk' = disk)
       /\ (Calls("load_from_file")
            /\ mgrCall'.file_path \in DOMAIN disk
            /\ ~EndsWith(mgrCall'.file_path, ".csv")
            /\ ~EndsWith(mgrCall'.file_path, ".xlsx"))
          => (Raised(mgrRet') /\ mgrRet'.val = NoValue)]_vars

\* C13 amended: template generation with a format tag that is none of csv,
\* xlsx, excel (letter case ignored) fails with an unsupported-type error
\* and writes no file; parsing of a file whose name ends in none of .csv,
\* .xlsx, .xls fails with an unsupported-format error carrying the path and
\* returns no map.
C13_UnsupportedFormatIsRefused ==
    [][/\ (Calls("create_template_file")
            /\ Lower(mgrCall'.file_type) \notin {"csv", "xlsx", "excel"})
          => (mgrRet' = UnsupportedFileType /\ disk' = disk)
       /\ (Calls("load_from_file")
            /\ ~EndsWith(mgrCall'.file_path, ".csv")
            /\ ~EndsWith(mgrCall'.file_path, ".xlsx")
            /\ ~EndsWith(mgrCall'.file_path, ".xls"))
          => mgrRet' = UnsupportedFileFormat(mgrCall'.file_path)]_vars

\* C13 witness: a template asked for in json over an existing csv template,
\* refused, the file left as it was
C13_Witness ==
    /\ mgrCall.op = "create_template_file"
    /\ mgrCall.file_type = "json"
    /\ mgrCall.file_path = "params.csv"
    /\ mgrRet = UnsupportedFileType
    /\ "params.csv" \in DOMAIN disk

(***************************************************************************)
(* Claims about the manager as a whole.                                    *)
(***************************************************************************)

\* C14: the resolver retains no cross-call state: after any sequence of
\* load_from_yahoo, load_from_file and create_template_file calls, successful
\* or failing, the DCFDataManager's state is its state at construction
\* (yahoo_processor is None): it holds no provider handle of an earlier
\* remote fetch.
C14_ManagerRetainsNoState ==
    yahoo_processor = NoProcessor

\* the provider call fails, or an item it returns is unusable: a share count
\* or market capitalisation that is null, a statement cell that is no number
Unusable(p) ==
    \/ ~p.up
    \/ \E k \in DOMAIN p.info \cap {"sharesOutstanding", "marketCap"} :
            ~IsNumeric(p.info[k])
    \/ \E st \in StatementNames : \E k \in DOMAIN p[st] : ~IsNumeric(p[st][k])

FetchError(r, ticker) ==
    /\ r.exc = "ValueError"
    /\ r.val = NoValue
    /\ r.msg[1] = "Error fetching data for "
    /\ r.msg[2] = Upper(ticker)

\* C15: when the provider call fails or returns unusable data for any of the
\* items fetched (info, balance sheet, cash flow, income statement),
\* load_from_yahoo asks the provider exactly once and fails with an error
\* that carries the ticker; it returns no field map built from that fetch.
\* (The calls are those whose assumption map holds the three rates.)
C15_FailedFetchFailsAtOnce ==
    [][(/\ Calls("load_from_yahoo")
        /\ {"growth_rate", "wacc", "terminal_growth_rate"}
                \subseteq DOMAIN mgrCall'.assumptions
        /\ Unusable(provider))
        => /\ provider'.requests = provider.requests + 1
           /\ FetchError(mgrRet', mgrCall'.ticker)]_vars

\* the words an error text is made of
Words(msg) ==
    IF msg # <<>> /\ msg[1] = "Missing required parameters: "
    THEN {msg[1]} \cup Range(msg[2])
    ELSE Range(msg)

\* C16: every error the resolver raises carries full context: each error of
\* the remote path, fetch failure or missing parameters, contains the ticker;
\* each error of the tabular path contains the file path; each error about
\* missing or unresolvable fields contains the names of those fields.
C16_ErrorsCarryFullContext ==
    /\ (mgrCall.op = "load_from_yahoo" /\ Raised(mgrRet))
        => /\ Upper(mgrCall.ticker) \in Words(mgrRet.msg)
           /\ MissingParameterError(mgrRet)
                => LET fetched == Fetched.val
                   IN  \A f \in DCFFields :
                           f \in Range(mgrRet.msg[2]) <=> AbsentOrNull(fetched, f)
    /\ (mgrCall.op = "load_from_file" /\ Raised(mgrRet))
        => /\ mgrCall.file_path \in Words(mgrRet.msg)
           /\ "Could not find column for parameter: " \in Words(mgrRet.msg)
                => \E f \in DCFFields : f \in Words(mgrRet.msg) /\ NoAliasMatches(f)

(***************************************************************************)
(* Claims about the arithmetic of the DCF engine.                          *)
(***************************************************************************)
SameBut(m, n, fields) == \A f \in DCFFields \ fields : m[f] = n[f]

\* C17: calculate_implied_share_price returns
\* (enterprise_value - debt + cash) / shares_outstanding, on the
\* enterprise_value given at construction: for shares_outstanding # 0 the
\* result does not depend on last_fcf, growth_rate, wacc or
\* terminal_growth_rate, and it is the same before and after any
\* calculate_intrinsic_value call.
C17_ImpliedPriceFromInputEnterpriseValue ==
    /\ [](dcfCall.op = "calculate_implied_share_price"
            /\ ~IsZero(dcf.shares_outstanding)
          => /\ dcfRet = Return(RQuot(RAdd(RSub(dcf.enterprise_value, dcf.debt),
                                           dcf.cash),
                                      dcf.shares_outstanding))
             /\ \A m \in DCFModels :
                    SameBut(m, dcf, {"last_fcf", "growth_rate", "wacc",
                                     "terminal_growth_rate"})
                    => calculate_implied_share_price(m) = dcfRet)
    /\ [][dcfCall'.op = "calculate_intrinsic_value"
            => calculate_implied_share_price(dcf') = calculate_implied_share_price(dcf)]_vars

\* C17 witness: 1000, 200, 50, 100 gives 8.50
C17_Witness ==
    /\ dcfCall.op = "calculate_implied_share_price"
    /\ dcf.enterprise_value = Num(1000)
    /\ dcf.debt = Num(200)
    /\ dcf.cash = Num(50)
    /\ dcf.shares_outstanding = Num(100)
    /\ ~IsZero(dcf.last_fcf)
    /\ dcfRet = Return(Rat(17, 2))

\* C18: for every years >= 1, project_free_cash_flows(years) returns a
\* sequence of exactly years elements whose element y (from 1) is
\* last_fcf * (1 + growth_rate)^y: the first is last_fcf * (1 + growth_rate)
\* and each further one is the one before times (1 + growth_rate); a second
\* call with the same fields and years returns the same sequence.
C18_ProjectionIsGeometric ==
    /\ [](dcfCall.op = "project_free_cash_flows" /\ dcfCall.years >= 1
          => LET flows == dcfRet.val
                 factor == RAdd(One, dcf.growth_rate)
             IN  /\ ~Raised(dcfRet)
                 /\ Len(flows) = dcfCall.years
                 /\ flows[1] = RMul(dcf.last_fcf, factor)
                 /\ \A y \in 2..Len(flows) : flows[y] = RMul(flows[y - 1], factor)
                 /\ \A y \in 1..Len(flows) :
                        flows[y] = RMul(dcf.last_fcf, RPow(factor, y)))
    /\ [][(/\ dcfCall.op = "project_free_cash_flows"
            /\ dcfCall'.op = "project_free_cash_flows"
            /\ dcfCall'.years = dcfCall.years
            /\ dcf' = dcf)
          => dcfRet' = dcfRet]_vars

\* C18 witness: three years projected from a non-zero cash flow that shrinks
C18_Witness ==
    /\ dcfCall.op = "project_free_cash_flows"
    /\ dcfCall.years = 3
    /\ dcf.last_fcf = Num(60)
    /\ dcf.growth_rate = Rat(-1, 2)
    /\ dcfRet = Return(<<Num(30), Num(15), Rat(15, 2)>>)

\* the sum of terms[1..n]
RECURSIVE Sum(_, _)
Sum(terms, n) == IF n = 0 THEN Zero ELSE RAdd(Sum(terms, n - 1), terms[n])

\* value / (1 + wacc)^periods
Discounted(value, periods) == RQuot(value, RPow(RAdd(One, dcf.wacc), periods))

\* C19: calculate_present_value(cash_flows, terminal_value) is the sum of
\* cash_flows[i] / (1 + wacc)^(i + 1) over the 0-based positions i, plus
\* terminal_value / (1 + wacc)^len(cash_flows): the terminal value is
\* discounted by as many periods as the last cash flow, not one more.
\* (Stated where the quotients exist: 1 + wacc # 0, or no cash flow.)
C19_PresentValueDiscounting ==
    (dcfCall.op = "calculate_present_value"
        /\ (dcf.wacc # Num(-1) \/ dcfCall.cash_flows = <<>>))
    => LET n == Len(dcfCall.cash_flows)
           terms == [j \in 1..n |-> Discounted(dcfCall.cash_flows[j], j)]
       IN  dcfRet = Return(RAdd(Sum(terms, n), Discounted(dcfCall.terminal_value, n)))

\* C19 witness: two cash flows and a terminal value discounted at wacc = 1:
\* 60/2 + 60/4 + 60/4
C19_Witness ==
    /\ dcfCall.op = "calculate_present_value"
    /\ dcf.wacc = One
    /\ dcfCall.cash_flows = <<Num(60), Num(60)>>
    /\ dcfCall.terminal_value = Num(60)
    /\ dcfRet = Return(Num(60))

\* C20: for shares_outstanding # 0, wacc # terminal_growth_rate and
\* years >= 1, calculate_intrinsic_value(years) is
\* (PV - debt + cash) / shares_outstanding, with F the projection
\* project_free_cash_flows(years) and PV the present value
\* calculate_present_value(F, calculate_terminal_value(last element of F)),
\* raising what PV raises; the result does not depend on the
\* enterprise_value field.
C20_IntrinsicValueComposition ==
    (dcfCall.op = "calculate_intrinsic_value"
        /\ dcfCall.years >= 1
        /\ ~IsZero(dcf.shares_outstanding)
        /\ dcf.wacc # dcf.terminal_growth_rate)
    => LET F == project_free_cash_flows(dcf, dcfCall.years)
           PV == calculate_present_value(
                    dcf, F, calculate_terminal_value(dcf, F[Len(F)]).val)
       IN  /\ dcfRet = IF Raised(PV) THEN PV
                       ELSE Return(RQuot(RAdd(RSub(PV.val, dcf.debt), dcf.cash),
                                         dcf.shares_outstanding))
           /\ \A m \in DCFModels :
                  SameBut(m, dcf, {"enterprise_value"})
                  => calculate_intrinsic_value(m, dcfCall.years) = dcfRet

\* C20 witness: 60 growing to 120 and 240, terminal value 240 at wacc = 1:
\* PV = 60 + 60 + 60 = 180, (180 - 200 + 50) / 100 = 3/10, whatever the
\* enterprise value given
C20_Witness ==
    /\ dcfCall.op = "calculate_intrinsic_value"
    /\ dcfCall.years = 2
    /\ dcf.last_fcf = Num(60)
    /\ dcf.growth_rate = One
    /\ dcf.wacc = One
    /\ dcf.terminal_growth_rate = Zero
    /\ dcf.cash = Num(50)
    /\ dcf.shares_outstanding = Num(100)
    /\ dcf.enterprise_value = Zero
    /\ dcfRet = Return(Rat(3, 10))

(***************************************************************************)
(* Claims about what the enterprise-value synthesis leaves alone.          *)
(***************************************************************************)
FetchDone == mgrCall.op = "get_financial_data" /\ ~Raised(mgrRet)

EnterpriseValueNonZero ==
    /\ "enterpriseValue" \in DOMAIN provider.info
    /\ IsNumeric(provider.info["enterpriseValue"])
    /\ ~IsZero(provider.info["enterpriseValue"].v)

\* lines 22-23, 25-27: the five other metrics as the data literal computes them
BeforeSynthesis ==
    [shares_outstanding |->
        PerMillion(Get(provider.info, "sharesOutstanding", PyFloat(Zero))).val,
     market_cap |-> PerMillion(Get(provider.info, "marketCap", PyFloat(Zero))).val,
     debt |-> LatestPerMillion(provider.balance_sheet, "Total Debt").val,
     cash |-> LatestPerMillion(provider.balance_sheet, "Cash And Cash Equivalents").val,
     last_fcf |-> LatestPerMillion(provider.cashflow, "Free Cash Flow").val]

\* C23: in get_financial_data the synthesis of the enterprise value changes
\* nothing else: a non-zero enterprise value from the provider is resolved
\* to that value / 1,000,000 whatever market_cap is; a zero or absent one
\* with market_cap <= 0 stays 0; and debt, cash, market_cap,
\* shares_outstanding and last_fcf are what they were before the synthesis.
C23_SynthesisChangesNothingElse ==
    FetchDone
    => LET data == mgrRet.val
           before == BeforeSynthesis
       IN  /\ EnterpriseValueNonZero
                => data.enterprise_value =
                     PyFloat(RQuot(provider.info["enterpriseValue"].v, Num(Million)))
           /\ (EnterpriseValueZeroOrAbsent /\ data.market_cap.v[1] <= 0)
                => data.enterprise_value = PyFloat(Zero)
           /\ \A f \in DOMAIN before : data[f] = before[f]

\* C23 witness: a synthesis over a market cap, a debt, a cash and a free cash
\* flow that are all non-zero and differ from the synthesised value
C23_Witness ==
    /\ FetchDone
    /\ EnterpriseValueZeroOrAbsent
    /\ MarketCapPositive
    /\ ~IsZero(mgrRet.val.enterprise_value.v)
    /\ \A f \in {"market_cap", "debt", "cash", "last_fcf", "shares_outstanding"} :
            /\ ~IsZero(mgrRet.val[f].v)
            /\ mgrRet.val[f] # mgrRet.val.enterprise_value

\* C23 witness of the other two cases: the provider's enterprise value kept
\* beside a positive market cap, and no synthesis from a negative market cap
C23_KeptOrLeftZero ==
    /\ FetchDone
    /\ \/ EnterpriseValueNonZero /\ MarketCapPositive
       \/ EnterpriseValueZeroOrAbsent /\ mgrRet.val.market_cap.v[1] < 0

(***************************************************************************)
(* Claims about the option pricing engine.                                 *)
(***************************************************************************)
PositiveVolatilityAndTerm == bsm.sigma[1] > 0 /\ bsm.T[1] > 0

\* d1 - sigma * sqrt(T), d1 from _calculate_d1
D2 == Subtract(_calculate_d1(bsm), RMul(bsm.sigma, Sqrt(bsm.T)))

\* C21: for sigma > 0 and T > 0, calculate_probability returns the normal
\* CDF of the d2 that calculate_call_price uses, d1 - sigma * sqrt(T) with
\* d1 from _calculate_d1: it is Phi(d2), not Phi(d1).
C21_ProbabilityIsCdfOfD2 ==
    (bsmCall.op = "calculate_probability" /\ PositiveVolatilityAndTerm)
    => /\ bsmRet = norm_cdf(D2)
       /\ bsmRet = calculate_call_price(bsm).cdf_d2
       /\ bsmRet # norm_cdf(_calculate_d1(bsm))

\* C21 witness: a probability asked of an option out of the money, with a
\* rate, a volatility and a term that all enter d2
C21_Witness ==
    /\ bsmCall.op = "calculate_probability"
    /\ bsm.S0 = Num(50)
    /\ bsm.K = Num(100)
    /\ bsm.T = Num(4)
    /\ bsm.r = Rat(1, 2)
    /\ bsm.sigma = Rat(1, 2)
    /\ bsmRet = norm_cdf(Finite(LNum(Rat(3, 2), Num(-1))))

(***************************************************************************)
(* Claims about the engines' fields and the freshness of their results.    *)
(***************************************************************************)
\* what the last call on the DCF engine gives on the fields as they are now
DCFAnswer ==
    CASE dcfCall.op = "calculate_implied_share_price" ->
            calculate_implied_share_price(dcf)
      [] dcfCall.op = "project_free_cash_flows" ->
            Return(project_free_cash_flows(dcf, dcfCall.years))
      [] dcfCall.op = "calculate_terminal_value" ->
            calculate_terminal_value(dcf, dcfCall.final_fcf)
      [] dcfCall.op = "calculate_present_value" ->
            calculate_present_value(dcf, dcfCall.cash_flows, dcfCall.terminal_value)
      [] dcfCall.op = "calculate_intrinsic_value" ->
            calculate_intrinsic_value(dcf, dcfCall.years)
      [] OTHER -> Return(NoValue)

\* the same for the option engine; a simulation answers for some draws
BSMAnswers ==
    CASE bsmCall.op = "_calculate_d1" -> {_calculate_d1(bsm)}
      [] bsmCall.op = "calculate_probability" -> {calculate_probability(bsm)}
      [] bsmCall.op = "calculate_call_price" -> {calculate_call_price(bsm)}
      [] bsmCall.op = "run_mc_simulation" ->
            {run_mc_simulation(bsm, bsmCall.n_simulations, Y, elapsed) :
                Y \in Samples(bsmCall.n_simulations), elapsed \in Elapsed}
      [] OTHER -> {NoValue}

ResultsAreOfCurrentFields ==
    /\ dcfRet = DCFAnswer
    /\ bsmRet \in BSMAnswers
    /\ dcfCall.op = "__setattr__" => dcf[dcfCall.name] = dcfCall.value
    /\ bsmCall.op = "__setattr__" => bsm[bsmCall.name] = bsmCall.value

\* a step changes a field only by assigning it, and only the one assigned
OnlyAssignmentChangesFields ==
    /\ dcf' # dcf
        => /\ dcfCall'.op = "__setattr__"
           /\ \A f \in DCFFields \ {dcfCall'.name} : dcf'[f] = dcf[f]
           /\ UNCHANGED bsmVars
    /\ bsm' # bsm
        => /\ bsmCall'.op = "__setattr__"
           /\ \A f \in BSMFields \ {bsmCall'.name} : bsm'[f] = bsm[f]
           /\ UNCHANGED dcfVars

=============================================================================
